---- MODULE Spec2Model ----
(***************************************************************************)
(* Model of the chat-bot bridge of erfantenhome/bot.                       *)
(*                                                                         *)
(* The repository holds two variants of the webhook handler:               *)
(*   src/bridge.py  telegram_webhook: dispatches send_otp / login tasks to *)
(*                  a remote worker (forward_task_to_worker);              *)
(*   src/app.py     webhook: calls the third party inline and persists     *)
(*                  tokens and vouchers in PostgreSQL.                     *)
(* `variant` fixes which of the two programs a behaviour runs.  A handler  *)
(* invocation is a thread of the WSGI server; it advances from one         *)
(* blocking call or shared-state access to the next.  Spec runs the        *)
(* handlers one after the other, SpecConc lets NThreads of them overlap,   *)
(* SpecStore runs app.py against every answer of the third party.          *)
(*                                                                         *)
(* Phones are sequences of digits, a message text is its command token     *)
(* (or "" for a text that does not start a command) and its arguments.     *)
(* The OTP code itself is not modelled: no branch of either program reads  *)
(* it.                                                                     *)
(***************************************************************************)
EXTENDS Integers, Sequences, FiniteSets, TLC

\* ----------------------------------------------------------------- bounds
NChats   == 2
NThreads == 2
NCodes   == 3
MaxBatch == 3

Chats    == 1..NChats
Threads  == 1..NThreads
Codes    == 1..NCodes

\* Phones a user may type: with and without the national leading zero.
Phones   == {<<0, 9>>, <<9>>, <<0, 8>>}
NoPhone  == <<>>
Services == {"snappfood"}
Tokens   == {"t1", "t2"}

VARIABLES
    variant,      \* "bridge" (src/bridge.py) or "app" (src/app.py)
    user_states,  \* the dict chat_id -> pending state
    tokens,       \* rows of table snappfood_tokens
    vouchers,     \* rows of table snappfood_vouchers
    h,            \* the handler invocation each server thread runs
    last,         \* history: how the last finished handling of a chat ended
    lastAdd,      \* history: phone of the chat's last successful /add
    uses,         \* history: login calls issued since the chat's state was set
    lastTok       \* history: token of the last committed upsert per phone

vars == <<variant, user_states, tokens, vouchers, h, last, lastAdd, uses, lastTok>>

\* ------------------------------------------------------------ dict helpers
\* Mutant of DictSet: dict.setdefault, which keeps an entry the key already has.
DictSetDefault(d, k, v) ==
    [c \in (DOMAIN d) \cup {k} |-> IF c = k /\ k \notin DOMAIN d THEN v ELSE d[c]]

\* user_states[k] = v
DictSet(d, k, v) == [c \in (DOMAIN d) \cup {k} |-> IF c = k THEN v ELSE d[c]]

\* Mutant of DictDel: user_states.clear(), which drops every chat's entry.
DictClear(d, k) == [c \in {} |-> d[c]]

\* user_states.pop(k) / del user_states[k], for k in the dict
DictDel(d, k) == [c \in (DOMAIN d) \ {k} |-> d[c]]

EmptyDict == [c \in {} |-> 0]

\* History only: remember v for k.
Remember(d, k, v) == [c \in (DOMAIN d) \cup {k} |-> IF c = k THEN v ELSE d[c]]

\* History only: writing phone p for chat k replaces another pending phone.
Overwrites(d, k, p) == k \in DOMAIN d /\ d[k].phone # p

\* -------------------------------------------------------- handler records
Idle ==
    [pc |-> "idle", chat |-> 0, cmd |-> "none", phone |-> NoPhone,
     sent |-> 0, resp |-> "none", exc |-> "none", login |-> 0,
     replaced |-> FALSE, persisted |-> FALSE,
     count |-> 0, seen |-> 0, known |-> 0, fresh |-> 0]

\* send_telegram_message(chat_id, text): one call to the send-message API.
\* Every exception of the call is caught (bridge.py:37), so it cannot fault.
send_telegram_message(r, text) ==
    [r EXCEPT !.sent = @ + 1, !.resp = text]

\* ----------------------------------------------------------- bridge.py
\* The worker's possible answers to POST /execute.
WorkerOutcomes ==
    {"transport", "http_error", "not_json", "not_object", "no_result",
     "null_result", "otp_sent", "text"}

\* forward_task_to_worker: the set of results the call can end with for an
\* outcome of the HTTP exchange.  "RAISE" is an exception that is not a
\* requests.exceptions.RequestException and so leaves the function.
\*   - a body that is not JSON raises requests' JSONDecodeError (caught) with
\*     requests >= 2.27 and a plain ValueError (not caught) before: both;
\*   - a JSON body that is not an object has no .get: AttributeError.
forward_task_to_worker(outcome) ==
    CASE outcome = "transport"   -> {"ConnErr"}
      [] outcome = "http_error"  -> {"ConnErr"}
      [] outcome = "not_json"    -> {"ConnErr", "RAISE"}
      [] outcome = "not_object"  -> {"RAISE"}
      [] outcome = "no_result"   -> {"NoResult"}
      [] outcome = "null_result" -> {"Null"}
      [] outcome = "otp_sent"    -> {"OTPSent"}
      [] outcome = "text"        -> {"Text"}

\* "OTP Sent" in result (bridge.py:64); a result that is not a string raises
\* TypeError.
HasOtpSent(result) == result = "OTPSent"

BridgeTexts ==
    {[cmd |-> "/start", args |-> <<>>],
     [cmd |-> "/add",   args |-> <<>>],
     [cmd |-> "/add",   args |-> <<"snappfood">>],
     [cmd |-> "/foo",   args |-> <<>>],
     [cmd |-> "",       args |-> <<>>],
     [cmd |-> "nomsg",  args |-> <<>>]}
    \cup {[cmd |-> "/add", args |-> <<s, p>>] : s \in Services, p \in Phones}

\* Mutant of BridgeReceive: /start also resets the conversation
\* (user_states.pop(chat_id, None) before the welcome text).
BridgeReceiveResetting(t, c, m) ==
    /\ variant = "bridge"
    /\ h[t].pc = "idle"
    /\ LET r0 == [Idle EXCEPT !.chat = c, !.cmd = m.cmd]
       IN  h' = [h EXCEPT ![t] =
             IF m.cmd = "nomsg"
               THEN [r0 EXCEPT !.pc = "ack", !.chat = 0]
             ELSE IF m.cmd = "/start"
               THEN [send_telegram_message(r0, "Welcome") EXCEPT !.pc = "ack"]
             ELSE IF m.cmd = "/add"
               THEN IF Len(m.args) < 2
                      THEN [send_telegram_message(r0, "Usage") EXCEPT !.pc = "ack"]
                      ELSE [send_telegram_message(r0, "Requesting")
                              EXCEPT !.pc = "add_call", !.phone = m.args[2]]
             ELSE IF m.cmd # "" THEN [r0 EXCEPT !.pc = "ack"]
             ELSE IF c \in DOMAIN user_states THEN [r0 EXCEPT !.pc = "pop"]
             ELSE [r0 EXCEPT !.pc = "ack"]]
    /\ user_states' = IF m.cmd = "/start" /\ c \in DOMAIN user_states
                        THEN DictDel(user_states, c) ELSE user_states
    /\ UNCHANGED <<variant, tokens, vouchers, last, lastAdd, uses, lastTok>>

\* telegram_webhook, lines 43-76: up to the first suspension point.
BridgeReceive(t, c, m) ==
    /\ variant = "bridge"
    /\ h[t].pc = "idle"
    /\ LET r0 == [Idle EXCEPT !.chat = c, !.cmd = m.cmd]
       IN  h' = [h EXCEPT ![t] =
             IF m.cmd = "nomsg"
               THEN [r0 EXCEPT !.pc = "ack", !.chat = 0]
             ELSE IF m.cmd = "/start"
               THEN [send_telegram_message(r0, "Welcome") EXCEPT !.pc = "ack"]
             ELSE IF m.cmd = "/add"
               THEN IF Len(m.args) < 2
                      THEN [send_telegram_message(r0, "Usage") EXCEPT !.pc = "ack"]
                      ELSE [send_telegram_message(r0, "Requesting")
                              EXCEPT !.pc = "add_call", !.phone = m.args[2]]
             ELSE IF m.cmd # "" THEN [r0 EXCEPT !.pc = "ack"]
             ELSE IF c \in DOMAIN user_states THEN [r0 EXCEPT !.pc = "pop"]
             ELSE [r0 EXCEPT !.pc = "ack"]]
    /\ UNCHANGED <<variant, user_states, tokens, vouchers, last, lastAdd, uses, lastTok>>

\* line 76-78: state = user_states.pop(chat_id), then the "Verifying" message.
\* The membership test of line 75 and the pop are two steps of the thread:
\* when another handler popped in between, pop raises KeyError.
BridgePop(t) ==
    /\ variant = "bridge"
    /\ h[t].pc = "pop"
    /\ IF h[t].chat \in DOMAIN user_states
         THEN /\ user_states' = DictDel(user_states, h[t].chat)
              /\ h' = [h EXCEPT ![t] =
                     [send_telegram_message(@, "Verifying")
                        EXCEPT !.pc = "login_call",
                               !.phone = user_states[h[t].chat].phone,
                               !.login = @ + 1]]
              /\ uses' = [uses EXCEPT ![h[t].chat] = @ + 1]
         ELSE /\ h' = [h EXCEPT ![t].pc = "fault", ![t].exc = "KeyError"]
              /\ UNCHANGED <<user_states, uses>>
    /\ UNCHANGED <<variant, tokens, vouchers, last, lastAdd, lastTok>>

\* lines 62-68: the send_otp task resolves.
BridgeAddResolve(t, outcome, result) ==
    /\ variant = "bridge"
    /\ h[t].pc = "add_call"
    /\ result \in forward_task_to_worker(outcome)
    /\ IF result \in {"RAISE", "Null"}
         THEN /\ h' = [h EXCEPT ![t].pc = "fault",
                                ![t].exc = IF result = "Null" THEN "TypeError"
                                           ELSE "WorkerBodyError"]
              /\ UNCHANGED <<user_states, lastAdd, uses>>
         ELSE IF HasOtpSent(result)
           THEN /\ user_states' = DictSet(user_states, h[t].chat,
                       [service |-> "snappfood", phone |-> h[t].phone])
                /\ h' = [h EXCEPT ![t] =
                       [send_telegram_message(@, "OtpPrompt")
                          EXCEPT !.pc = "ack",
                                 !.replaced = Overwrites(user_states, h[t].chat, h[t].phone)]]
                /\ lastAdd' = [lastAdd EXCEPT ![h[t].chat] = h[t].phone]
                /\ uses' = [uses EXCEPT ![h[t].chat] = 0]
           ELSE /\ h' = [h EXCEPT ![t] =
                       [send_telegram_message(@, "AddFailed") EXCEPT !.pc = "ack"]]
                /\ UNCHANGED <<user_states, lastAdd, uses>>
    /\ UNCHANGED <<variant, tokens, vouchers, last, lastTok>>

\* lines 80-81: the login task resolves and its result is sent as it is.
BridgeLoginResolve(t, outcome, result) ==
    /\ variant = "bridge"
    /\ h[t].pc = "login_call"
    /\ result \in forward_task_to_worker(outcome)
    /\ h' = [h EXCEPT ![t] =
           IF result = "RAISE" THEN [@ EXCEPT !.pc = "fault", !.exc = "WorkerBodyError"]
           ELSE [send_telegram_message(@, result) EXCEPT !.pc = "ack"]]
    /\ UNCHANGED <<variant, user_states, tokens, vouchers, last, lastAdd, uses, lastTok>>

\* -------------------------------------------------------------- app.py
\* What a database call can meet: a connection and a successful statement,
\* no connection (get_db_connection returns None), or a statement that raises.
DbOutcomes == {"ok", "noconn", "error"}

\* format_phone_number, lines 122-125
format_phone_number(phone) ==
    IF phone = <<>> \/ Head(phone) # 0 THEN <<0>> \o phone ELSE phone

\* Mutant of UpsertToken: a plain INSERT into a table without the UNIQUE key.
InsertToken(rows, phone_number, token_info) ==
    rows \cup {[phone_number |-> phone_number, token_info |-> token_info]}

\* INSERT ... ON CONFLICT (phone_number) DO UPDATE SET token_info = EXCLUDED.token_info
UpsertToken(rows, phone_number, token_info) ==
    IF \E r \in rows : r.phone_number = phone_number
      THEN {IF r.phone_number = phone_number
              THEN [r EXCEPT !.token_info = token_info] ELSE r : r \in rows}
      ELSE rows \cup {[phone_number |-> phone_number, token_info |-> token_info]}

\* save_token_to_db, lines 70-82: the table after the call.  Without a
\* connection the function returns at once; a statement that raises commits
\* nothing.
save_token_to_db(rows, phone_number, token_info, db) ==
    CASE db = "noconn" -> rows
      [] db = "error"  -> rows
      [] db = "ok"     -> UpsertToken(rows, phone_number, token_info)

\* Mutant of SelectToken: the SELECT without its WHERE clause.
SelectAnyToken(rows, phone_number) ==
    IF rows # {} THEN (CHOOSE r \in rows : TRUE).token_info ELSE "None"

\* SELECT token_info FROM snappfood_tokens WHERE phone_number = %s; fetchone()
SelectToken(rows, phone_number) ==
    IF \E r \in rows : r.phone_number = phone_number
      THEN (CHOOSE r \in rows : r.phone_number = phone_number).token_info
      ELSE "None"

\* get_token_from_db, lines 84-93
get_token_from_db(rows, phone_number, db) ==
    CASE db = "noconn" -> "None"
      [] db = "error"  -> "RAISE"
      [] db = "ok"     -> SelectToken(rows, phone_number)

\* Mutant of InsertVoucher: ON CONFLICT (code) DO UPDATE SET phone_number =
\* EXCLUDED.phone_number, which hands a stored code to the last submitter.
UpsertVoucher(rows, phone_number, code) ==
    {r \in rows : r.code # code} \cup {[phone_number |-> phone_number, code |-> code]}

\* INSERT ... ON CONFLICT (code) DO NOTHING: the table after one statement.
InsertVoucher(rows, phone_number, code) ==
    IF \E r \in rows : r.code = code
      THEN rows
      ELSE rows \cup {[phone_number |-> phone_number, code |-> code]}

\* The loop of save_vouchers_to_db, lines 101-107: cur.rowcount > 0 exactly
\* when the statement added a row.
RECURSIVE InsertAll(_, _, _, _, _)
InsertAll(rows, phone_number, batch, i, saved_count) ==
    IF i > Len(batch) THEN [rows |-> rows, saved_count |-> saved_count]
    ELSE LET next == InsertVoucher(rows, phone_number, batch[i])
         IN  InsertAll(next, phone_number, batch, i + 1,
                       IF next # rows THEN saved_count + 1 ELSE saved_count)

\* Mutant of save_vouchers_to_db: counts every statement, not cur.rowcount.
save_vouchers_count_all(rows, phone_number, batch) ==
    [rows |-> InsertAll(rows, phone_number, batch, 1, 0).rows,
     saved_count |-> Len(batch)]

\* save_vouchers_to_db, lines 95-111, with a connection.
save_vouchers_to_db(rows, phone_number, batch) ==
    InsertAll(rows, phone_number, batch, 1, 0)

AppTexts ==
    {[cmd |-> "/start", args |-> <<>>],
     [cmd |-> "/add",   args |-> <<>>],
     [cmd |-> "/otp",   args |-> <<>>],
     [cmd |-> "/otp",   args |-> <<NoPhone>>],
     [cmd |-> "/check", args |-> <<>>],
     [cmd |-> "/foo",   args |-> <<>>],
     [cmd |-> "",       args |-> <<>>],
     [cmd |-> "nomsg",  args |-> <<>>]}
    \cup {[cmd |-> c, args |-> <<p>>] : c \in {"/add", "/check"}, p \in Phones}

\* webhook, lines 200-238: up to the first call to the third party.
AppReceive(t, c, m, db) ==
    /\ variant = "app"
    /\ h[t].pc = "idle"
    /\ LET r0 == [Idle EXCEPT !.chat = c, !.cmd = m.cmd]
           tok == get_token_from_db(tokens, m.args[1], db)
       IN  IF m.cmd = "/otp" /\ c \in DOMAIN user_states /\ Len(m.args) >= 1
             THEN /\ h' = [h EXCEPT ![t] =
                         [r0 EXCEPT !.pc = "verify_call",
                                    !.phone = user_states[c].phone,
                                    !.login = 1]]
                  /\ uses' = [uses EXCEPT ![c] = @ + 1]
             ELSE /\ uses' = uses
                  /\ h' = [h EXCEPT ![t] =
                       IF m.cmd = "nomsg"
                         THEN [r0 EXCEPT !.pc = "except", !.chat = 0, !.exc = "KeyError"]
                       ELSE IF m.cmd = "/start"
                         THEN [r0 EXCEPT !.pc = "reply", !.resp = "Welcome"]
                       ELSE IF m.cmd = "/add"
                         THEN IF Len(m.args) < 1
                                THEN [r0 EXCEPT !.pc = "reply", !.resp = "Usage"]
                                ELSE [r0 EXCEPT !.pc = "otp_call", !.phone = m.args[1]]
                       ELSE IF m.cmd = "/otp"
                         THEN IF c \in DOMAIN user_states
                                THEN [r0 EXCEPT !.pc = "reply", !.resp = "Usage"]
                                ELSE [r0 EXCEPT !.pc = "reply", !.resp = "UseAddFirst"]
                       ELSE IF m.cmd = "/check"
                         THEN IF Len(m.args) < 1
                                THEN [r0 EXCEPT !.pc = "reply", !.resp = "Usage"]
                              ELSE IF tok = "RAISE"
                                THEN [r0 EXCEPT !.pc = "except", !.phone = m.args[1],
                                                !.exc = "DbError"]
                              ELSE IF tok = "None"
                                THEN [r0 EXCEPT !.pc = "reply", !.resp = "NoToken",
                                                !.phone = m.args[1]]
                              ELSE [r0 EXCEPT !.pc = "fetch_call", !.phone = m.args[1]]
                       ELSE [r0 EXCEPT !.pc = "reply", !.resp = "Fallback"]]
    /\ UNCHANGED <<variant, user_states, tokens, vouchers, last, lastAdd, lastTok>>

\* Mutant of AppOtpResolve: a failed send also clears the chat's entry
\* (user_states.pop(chat_id, None) in the else branch).
AppOtpResolveClearing(t, ok) ==
    /\ variant = "app"
    /\ h[t].pc = "otp_call"
    /\ IF ok
         THEN /\ user_states' = DictSet(user_states, h[t].chat,
                     [state |-> "awaiting_otp", phone |-> h[t].phone])
              /\ h' = [h EXCEPT ![t].pc = "reply", ![t].resp = "OtpPrompt",
                                ![t].replaced = Overwrites(user_states, h[t].chat, h[t].phone)]
              /\ lastAdd' = [lastAdd EXCEPT ![h[t].chat] = h[t].phone]
              /\ uses' = [uses EXCEPT ![h[t].chat] = 0]
         ELSE /\ h' = [h EXCEPT ![t].pc = "reply", ![t].resp = "AddFailed"]
              /\ user_states' = DictDel(user_states, h[t].chat)
              /\ UNCHANGED <<lastAdd, uses>>
    /\ UNCHANGED <<variant, tokens, vouchers, last, lastTok>>

\* lines 214-218: send_snappfood_otp returned.
AppOtpResolve(t, ok) ==
    /\ variant = "app"
    /\ h[t].pc = "otp_call"
    /\ IF ok
         THEN /\ user_states' = DictSet(user_states, h[t].chat,
                     [state |-> "awaiting_otp", phone |-> h[t].phone])
              /\ h' = [h EXCEPT ![t].pc = "reply", ![t].resp = "OtpPrompt",
                                ![t].replaced = Overwrites(user_states, h[t].chat, h[t].phone)]
              /\ lastAdd' = [lastAdd EXCEPT ![h[t].chat] = h[t].phone]
              /\ uses' = [uses EXCEPT ![h[t].chat] = 0]
         ELSE /\ h' = [h EXCEPT ![t].pc = "reply", ![t].resp = "AddFailed"]
              /\ UNCHANGED <<user_states, lastAdd, uses>>
    /\ UNCHANGED <<variant, tokens, vouchers, last, lastTok>>

\* What the login endpoint can answer: a failure of the exchange, a body
\* without the token, or a body with an access token.
VerifyOutcomes == {"fail", "no_token"} \cup Tokens

\* verify_snappfood_otp_and_save_token, lines 145-168: the reply text.
VerifyReply(outcome, db) ==
    IF outcome = "fail" THEN "LoginFailed"
    ELSE IF outcome = "no_token" THEN "NoTokenInResponse"
    ELSE IF db = "error" THEN "LoginFailed"
    ELSE "Added"

\* lines 228-229: verify_snappfood_otp_and_save_token returned, then
\* del user_states[chat_id] (KeyError when the entry is gone).
AppVerifyResolve(t, outcome, db) ==
    /\ variant = "app"
    /\ h[t].pc = "verify_call"
    /\ LET fp    == format_phone_number(h[t].phone)
           saves == outcome \in Tokens
           after == IF saves THEN save_token_to_db(tokens, fp, outcome, db) ELSE tokens
           done  == saves /\ db = "ok"
           repl  == done /\ SelectToken(tokens, fp) \notin {"None", outcome}
       IN  /\ tokens' = after
           /\ lastTok' = IF done THEN Remember(lastTok, fp, outcome) ELSE lastTok
           /\ IF h[t].chat \in DOMAIN user_states
                THEN /\ user_states' = DictDel(user_states, h[t].chat)
                     /\ h' = [h EXCEPT ![t].pc = "reply",
                                       ![t].resp = VerifyReply(outcome, db),
                                       ![t].persisted = done,
                                       ![t].replaced = repl]
                ELSE /\ user_states' = user_states
                     /\ h' = [h EXCEPT ![t].pc = "except",
                                       ![t].exc = "KeyError",
                                       ![t].resp = VerifyReply(outcome, db),
                                       ![t].persisted = done,
                                       ![t].replaced = repl]
    /\ UNCHANGED <<variant, vouchers, last, lastAdd, uses>>

\* The voucher lists the third party can return, as the codes of the entries.
\* The table does not depend on the order of a list (InsertVoucher keeps the
\* first row of a code), so the lists are taken in nondecreasing order.
Batches ==
    UNION {{b \in [1..n -> Codes] : \A i \in 1..(n - 1) : b[i] <= b[i + 1]}
             : n \in 0..MaxBatch}

\* fetch_and_save_vouchers, lines 180-191: the GET resolved.
AppFetchResolve(t, failed, batch, db) ==
    /\ variant = "app"
    /\ h[t].pc = "fetch_call"
    /\ LET res == save_vouchers_to_db(vouchers, h[t].phone, batch)
       IN  IF failed
             THEN /\ h' = [h EXCEPT ![t].pc = "reply", ![t].resp = "FetchFailed"]
                  /\ vouchers' = vouchers
           ELSE IF batch = <<>>
             THEN /\ h' = [h EXCEPT ![t].pc = "reply", ![t].resp = "NoNew"]
                  /\ vouchers' = vouchers
           ELSE IF db = "noconn"
             THEN /\ h' = [h EXCEPT ![t].pc = "reply", ![t].resp = "SavedNone",
                                    ![t].seen = Len(batch)]
                  /\ vouchers' = vouchers
           ELSE IF db = "error"
             THEN /\ h' = [h EXCEPT ![t].pc = "reply", ![t].resp = "FetchFailed"]
                  /\ vouchers' = vouchers
           ELSE /\ h' = [h EXCEPT ![t].pc = "reply", ![t].resp = "Saved",
                                  ![t].count = res.saved_count,
                                  ![t].seen = Len(batch),
                                  ![t].known = Cardinality({i \in 1..Len(batch) :
                                      \E r \in vouchers : r.code = batch[i]}),
                                  ![t].fresh = Cardinality(res.rows \ vouchers),
                                  ![t].persisted = TRUE]
                /\ vouchers' = res.rows
    /\ UNCHANGED <<variant, user_states, tokens, last, lastAdd, uses, lastTok>>

\* The end of webhook: the one send of response_text.
AppReply(t) ==
    /\ variant = "app"
    /\ h[t].pc = "reply"
    /\ h' = [h EXCEPT ![t].pc = "ack", ![t].sent = @ + 1]
    /\ UNCHANGED <<variant, user_states, tokens, vouchers, last, lastAdd, uses, lastTok>>

\* The handler of webhook's outer try: an exception of the body becomes an
\* error reply when the chat is known, and the platform is answered 200.
AppExcept(t) ==
    /\ variant = "app"
    /\ h[t].pc = "except"
    /\ h' = [h EXCEPT ![t].pc = "ack",
                      ![t].resp = "InternalError",
                      ![t].sent = IF h[t].chat \in Chats THEN @ + 1 ELSE @]
    /\ UNCHANGED <<variant, user_states, tokens, vouchers, last, lastAdd, uses, lastTok>>

\* How a finished handling is remembered for the chat's next message.
Summary(r) ==
    IF r.login > 0 THEN "consumed"
    ELSE IF r.resp = "AddFailed" THEN "add_failed"
    ELSE "other"

\* line 83 (bridge.py) / the handler's return: 200 "OK".
Return(t) ==
    /\ h[t].pc = "ack"
    /\ h' = [h EXCEPT ![t] = Idle]
    /\ last' = IF h[t].chat \in Chats
                 THEN [last EXCEPT ![h[t].chat] = Summary(h[t])]
                 ELSE last
    /\ UNCHANGED <<variant, user_states, tokens, vouchers, lastAdd, uses, lastTok>>

\* An exception left the view function: Flask answers 500.
Abort(t) ==
    /\ h[t].pc = "fault"
    /\ h' = [h EXCEPT ![t] = Idle]
    /\ last' = IF h[t].chat \in Chats
                 THEN [last EXCEPT ![h[t].chat] = "other"]
                 ELSE last
    /\ UNCHANGED <<variant, user_states, tokens, vouchers, lastAdd, uses, lastTok>>

\* ------------------------------------------------------- specifications
Init ==
    /\ variant \in {"bridge", "app"}
    /\ user_states = EmptyDict
    /\ tokens = {}
    /\ vouchers = {}
    /\ h = [t \in Threads |-> Idle]
    /\ last = [c \in Chats |-> "other"]
    /\ lastAdd = [c \in Chats |-> NoPhone]
    /\ uses = [c \in Chats |-> 0]
    /\ lastTok = EmptyDict

AllIdle == \A u \in Threads : h[u].pc = "idle"

WorkerResults == {"ConnErr", "RAISE", "NoResult", "Null", "OTPSent", "Text"}

\* A message of chat c reaches idle thread t; cmds bounds what users type.
Receive(t, c, cmds) ==
    \/ \E m \in {x \in BridgeTexts : x.cmd \in cmds} : BridgeReceive(t, c, m)
    \/ \E m \in {x \in AppTexts : x.cmd \in cmds}, db \in DbOutcomes :
          AppReceive(t, c, m, db)

\* Thread t's handler advances; toks and batches bound what the third party
\* answers.
BridgeStep(t) ==
    \/ BridgePop(t)
    \/ \E o \in WorkerOutcomes, res \in WorkerResults : BridgeAddResolve(t, o, res)
    \/ \E o \in WorkerOutcomes, res \in WorkerResults : BridgeLoginResolve(t, o, res)
    \/ Abort(t)

AppStep(t, toks) ==
    \/ \E ok \in BOOLEAN : AppOtpResolve(t, ok)
    \/ \E o \in {"fail", "no_token"} \cup toks, db \in DbOutcomes :
          AppVerifyResolve(t, o, db)
    \/ AppReply(t)
    \/ AppExcept(t)

FetchStep(t, batches) ==
    \/ AppFetchResolve(t, TRUE, <<>>, "ok")
    \/ \E b \in batches, db \in DbOutcomes : AppFetchResolve(t, FALSE, b, db)

AllCmds == {"/start", "/add", "/otp", "/check", "/foo", "", "nomsg"}

\* The conversation: one handler at a time (a single-threaded server), every
\* chat and every message of the OTP flow.  The stores are SpecStore's part:
\* here no /check is sent and the login endpoint issues no token.
ConvCmds == AllCmds \ {"/check"}

Next ==
    \/ \E c \in Chats : AllIdle /\ Receive(1, c, ConvCmds)
    \/ \E t \in Threads : BridgeStep(t)
    \/ \E t \in Threads : AppStep(t, {})
    \/ \E t \in Threads : Return(t)

Spec == Init /\ [][Next]_vars

\* Handlers of up to NThreads messages overlap (a threaded server); the
\* messages are those of the OTP flow of one chat, the login endpoint issues
\* one token.
ConcTokens == {"t1"}
ConcCmds == {"/start", "/add", "/otp", ""}

NextConc ==
    \/ \E t \in Threads : Receive(t, 1, ConcCmds)
    \/ \E t \in Threads : BridgeStep(t)
    \/ \E t \in Threads : AppStep(t, ConcTokens)
    \/ \E t \in Threads : Return(t)

SpecConc == Init /\ [][NextConc]_vars

\* The stores: app.py serving one chat, one handler at a time, with every
\* token and every voucher list the third party can answer.
InitStore == Init /\ variant = "app"

NextStore ==
    \/ AllIdle /\ Receive(1, 1, AllCmds)
    \/ AppStep(1, Tokens)
    \/ FetchStep(1, Batches)
    \/ Return(1)

SpecStore == InitStore /\ [][NextStore]_vars

\* Either program with its whole command set, serving one chat, one handler at
\* a time; the login endpoint issues one token and a fetch returns at most one
\* voucher.
ChatBatches == {b \in Batches : Len(b) <= 1}

NextChat ==
    \/ AllIdle /\ Receive(1, 1, AllCmds)
    \/ BridgeStep(1)
    \/ AppStep(1, ConcTokens)
    \/ FetchStep(1, ChatBatches)
    \/ Return(1)

SpecChat == Init /\ [][NextChat]_vars

\* Handlers of different chats overlap: thread t serves the messages of chat
\* ChatOf(t), one at a time, so that every interleaving of the OTP flows of
\* the chats is a behaviour.  The user of a chat types the complete messages of
\* the OTP flow with the chat's own phone, so that a state or a call that
\* crossed chats shows in the phone it holds; app.py also gets updates without
\* message.
ChatOf(t) == ((t - 1) % NChats) + 1
IsoPhones == <<<<0, 9>>, <<9>>, <<0, 8>>>>
IsoPhone(c) == IsoPhones[((c - 1) % Len(IsoPhones)) + 1]
BridgeIsoCmds == {"/add", ""}
AppIsoCmds == {"/add", "/otp", "nomsg"}

IsoReceive(t, c) ==
    \/ \E m \in {x \in BridgeTexts :
                  /\ x.cmd \in BridgeIsoCmds
                  /\ x.cmd = "/add" => (Len(x.args) = 2 /\ x.args[2] = IsoPhone(c))} :
          BridgeReceive(t, c, m)
    \/ \E m \in {x \in AppTexts :
                  /\ x.cmd \in AppIsoCmds
                  /\ x.cmd \in {"/add", "/otp"} => Len(x.args) = 1
                  /\ x.cmd = "/add" => x.args[1] = IsoPhone(c)} :
          AppReceive(t, c, m, "ok")

NextIso ==
    \/ \E t \in Threads : IsoReceive(t, ChatOf(t))
    \/ \E t \in Threads : BridgeStep(t)
    \/ \E t \in Threads : AppStep(t, {})
    \/ \E t \in Threads : Return(t)

SpecIso == Init /\ [][NextIso]_vars

\* send_telegram_message, line 36: requests.post(url, json=payload) is given no
\* timeout, and requests then waits for the response without limit.  When the
\* send API accepts the connection and never answers, the send of the login
\* result (line 81) does not return: no exception is raised for line 37 to
\* catch, and the handler stays in the call.
BridgeSendBlocks(t) ==
    /\ variant = "bridge"
    /\ h[t].pc = "login_call"
    /\ \E o \in WorkerOutcomes : \E res \in forward_task_to_worker(o) :
          /\ res # "RAISE"
          /\ h' = [h EXCEPT ![t].pc = "send_blocked", ![t].resp = res]
    /\ UNCHANGED <<variant, user_states, tokens, vouchers, last, lastAdd, uses, lastTok>>

\* The conversation with endpoints that may never answer.  A call that has a
\* timeout resolves (weak fairness of the handler's steps); the send of
\* bridge.py has none.
NextLive ==
    \/ Next
    \/ \E t \in Threads : BridgeSendBlocks(t)

SpecLive ==
    /\ Init
    /\ [][NextLive]_vars
    /\ \A t \in Threads :
          /\ WF_vars(BridgeStep(t))
          /\ WF_vars(AppStep(t, {}))
          /\ WF_vars(Return(t))

\* ---------------------------------------------------------------- claims
\* A handling that has done all its work and is about to answer the platform.
Finished(t) == h[t].pc = "ack" /\ h[t].chat \in Chats

\* The message that continues a pending operation: a text that starts no
\* command (bridge.py:75), and in app.py the /otp command too (app.py:222).
FollowUp(t) == h[t].cmd = "" \/ (variant = "app" /\ h[t].cmd = "/otp")

\* The handler sent the one "no pending operation" reply.
NoPendingReply(t) == h[t].sent = 1 /\ h[t].resp \in {"Fallback", "UseAddFirst"}

\* C1: when the chat's previous message consumed its pending state, the next
\* follow-up message of the chat gets the "no pending operation" reply and
\* issues no OTP-verify / login call.
C1_ConsumedExactlyOnce ==
    \A t \in Threads :
        (Finished(t) /\ FollowUp(t) /\ last[h[t].chat] = "consumed")
            => (NoPendingReply(t) /\ h[t].login = 0)

\* C2: when the chat's previous message was a /add whose OTP-send failed, the
\* next text that starts no command gets the "no pending operation" reply and
\* issues no OTP-verify / login call, whatever happened in the chat before.
C2_FailedAddThenText ==
    \A t \in Threads :
        (Finished(t) /\ h[t].cmd = "" /\ last[h[t].chat] = "add_failed")
            => (NoPendingReply(t) /\ h[t].login = 0)

\* C3: with overlapping handlers of one chat, at most one OTP-verify / login
\* call is issued for one pending state and no handler dies of the KeyError
\* of a state another handler removed.
C3_SerializedPerChat ==
    /\ \A c \in Chats : uses[c] <= 1
    /\ \A t \in Threads : ~(h[t].pc = "fault" /\ h[t].exc = "KeyError")

\* C4: while an OTP-verify / login call of a chat is in flight, the chat has
\* no pending state.
C4_RemovedBeforeVerify ==
    \A t \in Threads :
        h[t].pc \in {"login_call", "verify_call"}
            => h[t].chat \notin DOMAIN user_states

\* C5: a handled message ends with exactly one call of the send-message API.
C5_ExactlyOneReply ==
    \A t \in Threads : Finished(t) => h[t].sent = 1

\* C6: no exception leaves the webhook handler, whatever the worker, the
\* third party, the send API and the database answer.
C6_NoUncaughtFault ==
    \A t \in Threads : h[t].pc # "fault"

\* C7: the success reply to an OTP verification and the "saved N" reply to a
\* fetch are sent only when the mutation was persisted, N being the number of
\* rows stored.
C7_StoreFailureSurfaced ==
    \A t \in Threads :
        (h[t].pc \in {"reply", "ack"} /\ h[t].resp \in {"Added", "Saved", "SavedNone"})
            => (h[t].persisted /\ (h[t].resp = "Saved" => h[t].count = h[t].fresh))

\* C8: after a successful /add the chat's pending state holds the phone of
\* that /add, also when it replaces an earlier one, and the OTP of the next
\* follow-up is verified against the phone of the chat's last successful /add.
C8_PendingOverwritten ==
    \A t \in Threads :
        /\ (h[t].pc \in {"reply", "ack"} /\ h[t].resp = "OtpPrompt")
             => /\ h[t].chat \in DOMAIN user_states
                /\ user_states[h[t].chat].phone = h[t].phone
        /\ h[t].pc \in {"login_call", "verify_call"}
             => h[t].phone = lastAdd[h[t].chat]

\* A successful /add has just replaced the pending state of another phone.
C8_Witness ==
    \E t \in Threads :
        /\ h[t].pc = "ack" /\ h[t].resp = "OtpPrompt" /\ h[t].replaced
        /\ user_states[h[t].chat].phone = h[t].phone

\* C9: the token table holds at most one row per phone, and reading a phone
\* returns the token of the last upsert committed for it.
C9_UpsertCredential ==
    /\ \A r1, r2 \in tokens : r1.phone_number = r2.phone_number => r1 = r2
    /\ \A p \in DOMAIN lastTok : get_token_from_db(tokens, p, "ok") = lastTok[p]

\* A second upsert has just replaced the token of a phone by another token.
C9_Witness ==
    \E t \in Threads :
        /\ h[t].pc = "reply" /\ h[t].resp = "Added" /\ h[t].replaced
        /\ Cardinality({r \in tokens :
               r.phone_number = format_phone_number(h[t].phone)}) = 1

\* C10: the count of the "saved N" reply is the number of rows the call added:
\* entries whose code was stored before, or came earlier in the list, are not
\* counted; a list of stored codes only reports 0 in the "saved" reply, and the
\* "no vouchers" reply is given only for an empty list.
C10_NewlyInsertedCount ==
    \A t \in Threads :
        h[t].pc \in {"reply", "ack"} =>
            /\ h[t].resp = "Saved" =>
                 /\ h[t].count = h[t].fresh
                 /\ h[t].count <= h[t].seen - h[t].known
                 /\ h[t].seen >= 1
                 /\ (h[t].known = h[t].seen => h[t].count = 0)
            /\ h[t].resp = "NoNew" => h[t].seen = 0

\* A fetch of 3 records, 1 of them with a stored code, has reported 2.
C10_Witness ==
    \E t \in Threads :
        /\ h[t].pc = "reply" /\ h[t].resp = "Saved"
        /\ h[t].seen = 3 /\ h[t].known = 1 /\ h[t].count = 2

\* C11: after any sequence of save_vouchers_to_db calls no two rows share a
\* code; a row once stored is never changed or removed, so a stored code
\* submitted again, by its owner or by another phone, keeps its owner; and
\* applying a call the handler is about to make a second time leaves the table
\* of the first application and adds no row.
C11_InsertOrSkip ==
    /\ [](\A r1, r2 \in vouchers : r1.code = r2.code => r1 = r2)
    /\ [][vouchers \subseteq vouchers']_vars
    /\ [](\A t \in Threads : h[t].pc = "fetch_call" =>
            \A b \in Batches :
                LET once == save_vouchers_to_db(vouchers, h[t].phone, b)
                IN  save_vouchers_to_db(once.rows, h[t].phone, b) =
                        [rows |-> once.rows, saved_count |-> 0])

\* A fetch for one phone has submitted only codes stored for another phone:
\* nothing was added and every row kept its owner.
C11_Witness ==
    \E t \in Threads :
        /\ h[t].pc = "reply" /\ h[t].resp = "Saved"
        /\ h[t].seen >= 2 /\ h[t].known = h[t].seen /\ h[t].count = 0
        /\ vouchers # {}
        /\ \A r \in vouchers : r.phone_number # h[t].phone

\* The token table holds no row for phone p.
NoCredential(p) == ~\E r \in tokens : r.phone_number = p

\* C12: a /check of a phone the token table holds no row for never reaches the
\* fetch call, is answered with the "add the account first" message once its
\* lookup has returned, and no step of its handling changes the token table
\* or the voucher table.
C12_CheckWithoutCredential ==
    /\ [](\A t \in Threads :
            (h[t].cmd = "/check" /\ h[t].phone \in Phones /\ NoCredential(h[t].phone))
                => /\ h[t].pc # "fetch_call"
                   /\ (h[t].pc \in {"reply", "ack"} /\ h[t].exc = "none")
                        => h[t].resp = "NoToken"
                   /\ h[t].pc = "ack" => h[t].sent = 1)
    /\ [][\A t \in Threads :
            (h'[t].cmd = "/check" /\ h'[t].phone \in Phones /\ NoCredential(h'[t].phone))
                => (tokens' = tokens /\ vouchers' = vouchers)]_vars

\* With a credential and vouchers stored for another phone, a /check of a
\* phone without credential has been answered "add the account first".
C12_Witness ==
    \E t \in Threads :
        /\ h[t].cmd = "/check" /\ h[t].pc = "ack" /\ h[t].resp = "NoToken"
        /\ h[t].phone = <<0, 8>> /\ NoCredential(<<0, 8>>)
        /\ ~NoCredential(<<0, 9>>) /\ vouchers # {}

\* Answers of the worker that are a well-formed success: status 2xx and a JSON
\* object whose "result" is a text.
WellFormed == {"otp_sent", "text"}

\* C13: whatever the worker answers to a task in flight, forward_task_to_worker
\* raises nothing to the handler, returns the one uniform failure string for a
\* transport failure, a non-2xx status and a malformed body (a 2xx body
\* without "result" included), and returns the worker's text only for a
\* well-formed success.
C13_DispatchFlattensFailures ==
    \A t \in Threads :
        h[t].pc \in {"add_call", "login_call"} =>
            \A o \in WorkerOutcomes : \A r \in forward_task_to_worker(o) :
                /\ r # "RAISE"
                /\ o \notin WellFormed => r = "ConnErr"
                /\ o \in WellFormed => r \in {"OTPSent", "Text"}

\* C14: every handler invocation eventually returns to the platform, also when
\* an endpoint it calls never responds.
C14_HandlerTerminates ==
    \A t \in Threads : (h[t].pc # "idle") ~> (h[t].pc = "idle")

\* C15: in every reachable state the phone of every pending state is in the
\* canonical form, with the national leading zero, whatever the user typed.
C15_PendingPhoneNormalized ==
    \A c \in DOMAIN user_states :
        user_states[c].phone = format_phone_number(user_states[c].phone)

\* C16: no step of the handling of a /add whose OTP-send fails changes the
\* pending-state mapping: neither taking the command up to the send-OTP call,
\* nor the failure of that call, nor the failure reply and the return.
C16_FailedAddKeepsPending ==
    [][\A t \in Threads :
         (h'[t].pc \in {"add_call", "otp_call"}
            \/ h'[t].resp = "AddFailed"
            \/ h[t].resp = "AddFailed")
         => user_states' = user_states]_vars

\* A /add has failed in a chat that has a pending state of another phone, and
\* that state is still there.
C16_Witness ==
    \E t \in Threads :
        /\ h[t].pc = "ack" /\ h[t].cmd = "/add" /\ h[t].resp = "AddFailed"
        /\ h[t].chat \in DOMAIN user_states
        /\ user_states[h[t].chat].phone # h[t].phone

\* The handling record r is one of /start, or of a text that starts no command
\* in a chat without pending state.
NoEffectCase(r) ==
    \/ r.cmd = "/start"
    \/ r.cmd = "" /\ r.login = 0 /\ r.chat \notin DOMAIN user_states

\* C17: no step of the handling of /start, or of a non-command text of a chat
\* without pending state, changes the pending-state mapping, the token table
\* or the voucher table, and none starts a call to the worker or the third
\* party.
C17_NoSideEffects ==
    [][\A t \in Threads :
         (h'[t] # h[t]
            /\ NoEffectCase(IF h[t].pc = "idle" THEN h'[t] ELSE h[t]))
         => /\ user_states' = user_states
            /\ tokens' = tokens
            /\ vouchers' = vouchers
            /\ h'[t].login = 0
            /\ h'[t].pc \in {"reply", "ack", "idle"}]_vars

\* /start has been answered in a chat that has a pending state, and the state
\* is still there.
C17_Witness ==
    \E t \in Threads :
        /\ h[t].cmd = "/start" /\ h[t].pc = "ack" /\ h[t].sent = 1
        /\ h[t].chat \in DOMAIN user_states

\* C18: once the OTP of a /add p has been verified and the token stored, the
\* lookup a /check p makes, with the phone as the user typed it, finds the
\* credential.
C18_StoredAndLookedUpAlike ==
    \A t \in Threads :
        (h[t].cmd = "/otp" /\ h[t].pc \in {"reply", "ack"}
           /\ h[t].resp = "Added" /\ h[t].persisted)
            => get_token_from_db(tokens, h[t].phone, "ok") # "None"

\* The entry of chat c, or NoPhone when it has none.
Pending(d, c) == IF c \in DOMAIN d THEN d[c].phone ELSE NoPhone

\* C19: with the handlers of different chats interleaved, a step of the
\* handler of chat A leaves the pending state of every other chat as it is,
\* present or absent, and the login / OTP-verify call it starts carries the
\* phone of chat A's own pending state.
C19_ChatsIsolated ==
    [][\A t \in Threads :
         h'[t] # h[t] =>
            LET a == IF h[t].pc = "idle" THEN h'[t].chat ELSE h[t].chat
            IN  /\ \A b \in Chats \ {a} :
                      Pending(user_states', b) = Pending(user_states, b)
                /\ (h'[t].pc \in {"login_call", "verify_call"}
                       /\ h[t].pc \notin {"login_call", "verify_call"})
                    => h'[t].phone = Pending(user_states, a)]_vars

\* A login / OTP-verify call of one chat is in flight while the handler of
\* another chat is at work and that chat holds a pending state of another
\* phone.
C19_Witness ==
    \E t, u \in Threads :
        /\ h[t].pc \in {"login_call", "verify_call"}
        /\ h[u].pc \notin {"idle", "ack"} /\ h[u].chat # h[t].chat
        /\ h[u].chat \in DOMAIN user_states
        /\ user_states[h[u].chat].phone # h[t].phone

====
